---- MODULE Spec2Model ----
(***************************************************************************)
(* A chain of CacheLevel objects (src/cache.py): set-associative,          *)
(* write-back caches with FIFO / LRU / MRU replacement.  Level 1 is the    *)
(* level requests are issued at; level l+1 is level l's higher_level (the  *)
(* level its misses are fetched from) and level l-1 its lower_level.       *)
(*                                                                         *)
(* A call to access / evict / invalidate is a frame on `stack`; the nested *)
(* calls of one request are taken one statement group at a time, so the    *)
(* states inside a miss / eviction / write-back cascade are states of the  *)
(* model.                                                                  *)
(***************************************************************************)
EXTENDS Integers, Sequences, FiniteSets

VARIABLES
    cfg,             \* the constructor arguments of each level of the chain
    cache,           \* cache[l][i]: the OrderedDict of set i of level l, as its key order
    cache_metadata,  \* cache_metadata[l][i]: tag -> dirty flag
    stack,           \* the calls in flight, innermost last
    events,          \* the report_* calls made since the current request was issued
    hist,            \* the first MaxHist requests issued, then "long"
    address_space,   \* the addresses that requests carry
    write_space,     \* the addresses that the write requests of SpecWrites carry
    accessOrder,     \* history: the resident tags of each set, least recently accessed first
    insertOrder,     \* history: the resident tags of each set, earliest inserted first
    pending          \* history, kept under SpecWrites: the blocks written at level 1 and
                     \* not written back by the last level since

vars == <<cfg, address_space, write_space, cache, cache_metadata, stack, events, hist,
          accessOrder, insertOrder, pending>>

-----------------------------------------------------------------------------
(* Bounds *)

\* the one-set hierarchy addresses blocks 0..MaxBlock
MaxBlock == 3
\* the three-level hierarchy addresses blocks 0..MaxBlock3
MaxBlock3 == 2
\* the two-level hierarchy addresses MaxAlias further blocks of the set of block 0
MaxAlias == 1
\* the number of requests whose identity `hist` keeps
MaxHist == 2
\* the byte offset of the address that is not block aligned
OffsetSample == 5
\* the geometries whose address arithmetic is exercised alone: block sizes
\* 2^0..2^MaxOffsetBits, 2^0..2^MaxIndexBits sets, addresses 0..MaxAddress
MaxOffsetBits == 3
MaxIndexBits == 2
MaxAddress == 63

-----------------------------------------------------------------------------
(* Integer helpers for Python's >>, <<, &, | and int.bit_length *)

RECURSIVE Pow2(_)
Pow2(n) == IF n <= 0 THEN 1 ELSE 2 * Pow2(n - 1)

RECURSIVE bit_length(_)
bit_length(n) == IF n <= 0 THEN 0 ELSE 1 + bit_length(n \div 2)

RECURSIVE BitAnd(_, _)
BitAnd(a, b) ==
    IF a = 0 \/ b = 0 THEN 0
    ELSE (IF a % 2 = 1 /\ b % 2 = 1 THEN 1 ELSE 0) + 2 * BitAnd(a \div 2, b \div 2)

RECURSIVE BitOr(_, _)
BitOr(a, b) ==
    IF a = 0 THEN b
    ELSE IF b = 0 THEN a
    ELSE (IF a % 2 = 1 \/ b % 2 = 1 THEN 1 ELSE 0) + 2 * BitOr(a \div 2, b \div 2)

ShiftRight(a, k) == a \div Pow2(k)
ShiftLeft(a, k) == a * Pow2(k)

-----------------------------------------------------------------------------
(* Configurations *)

Policies == {"FIFO", "LRU", "MRU"}

\* the spellings of a policy name, in any mix of upper and lower case
Spellings(pol) ==
    IF pol = "FIFO"
    THEN {"FIFO", "FIFo", "FIfO", "FIfo", "FiFO", "FiFo", "FifO", "Fifo",
          "fIFO", "fIFo", "fIfO", "fIfo", "fiFO", "fiFo", "fifO", "fifo"}
    ELSE IF pol = "LRU"
    THEN {"LRU", "LRu", "LrU", "Lru", "lRU", "lRu", "lrU", "lru"}
    ELSE IF pol = "MRU"
    THEN {"MRU", "MRu", "MrU", "Mru", "mRU", "mRu", "mrU", "mru"}
    ELSE {pol}
PolicySpellings == UNION {Spellings(pol) : pol \in Policies}

\* str.upper(), line 11: every letter a..z of the name becomes its capital and every
\* other character stays (names are taken to be ASCII)
LowerCase == "abcdefghijklmnopqrstuvwxyz"
UpperCase == "ABCDEFGHIJKLMNOPQRSTUVWXYZ"
upper_char(c) ==
    IF \E k \in 1..Len(LowerCase) : SubSeq(LowerCase, k, k) = c
    THEN LET k == CHOOSE k \in 1..Len(LowerCase) : SubSeq(LowerCase, k, k) = c
         IN  SubSeq(UpperCase, k, k)
    ELSE c
RECURSIVE upper(_)
upper(name) ==
    IF Len(name) = 0 THEN name
    ELSE upper_char(SubSeq(name, 1, 1)) \o upper(SubSeq(name, 2, Len(name)))

\* the fields __init__ stores; higher_level and lower_level default to None, here 0
LevelCfg(size, bs, assoc, pol) ==
    [cache_size |-> size, block_size |-> bs, associativity |-> assoc,
     eviction_policy |-> upper(pol), higher_level |-> 0, lower_level |-> 0]

\* the levels linked into a chain: level l + 1 is level l's higher_level and level l is
\* level l + 1's lower_level
Chain(levels) ==
    [l \in 1..Len(levels) |->
        [levels[l] EXCEPT !.higher_level = IF l < Len(levels) THEN l + 1 ELSE 0,
                          !.lower_level = IF l > 1 THEN l - 1 ELSE 0]]
\* the levels linked through higher_level only: every lower_level is left None
ChainUp(levels) ==
    [l \in 1..Len(levels) |->
        [levels[l] EXCEPT !.higher_level = IF l < Len(levels) THEN l + 1 ELSE 0]]

Hierarchy(levels, addresses) == [levels |-> levels, addresses |-> addresses]

\* L1 (64, 16, 1) backed by L2 (128, 16, 2), four sets each; blocks 0x00 and 0x10 and
\* the blocks 0x40, 0x80, ... that share set 0 with 0x00
TwoLevel(pol) ==
    Hierarchy(Chain(<<LevelCfg(64, 16, 1, pol), LevelCfg(128, 16, 2, pol)>>),
              {0, 16} \cup {64 * k : k \in 1..MaxAlias})
\* one 3-way set; one address is not block aligned
OneSet3Way(pol) ==
    Hierarchy(Chain(<<LevelCfg(48, 16, 3, pol)>>),
              {16 * b : b \in 0..MaxBlock} \cup {OffsetSample})
\* three levels of one set each: 2-way, 1-way, 1-way
ThreeLevelCfg(pol) ==
    <<LevelCfg(32, 16, 2, pol), LevelCfg(16, 16, 1, pol), LevelCfg(16, 16, 1, pol)>>
ThreeLevel(pol) ==
    Hierarchy(Chain(ThreeLevelCfg(pol)), {16 * b : b \in 0..MaxBlock3})
\* the same three levels constructed with their higher_level only
ThreeLevelUp(pol) ==
    Hierarchy(ChainUp(ThreeLevelCfg(pol)), {16 * b : b \in 0..MaxBlock3})

\* the chains constructed with both links
LinkedHierarchies ==
    UNION {{TwoLevel(p), OneSet3Way(p), ThreeLevel(p)} : p \in PolicySpellings}
Hierarchies == LinkedHierarchies \cup {ThreeLevelUp(p) : p \in PolicySpellings}

Levels == 1..Len(cfg)
\* a chain closed into a ring: the last level's misses go to level 1
higher_level_wraps(l) == IF l < Len(cfg) THEN l + 1 ELSE 1

higher_level(l) == cfg[l].higher_level
lower_level(l) == cfg[l].lower_level

num_sets(l) == cfg[l].cache_size \div (cfg[l].block_size * cfg[l].associativity)
offset_bits(l) == bit_length(cfg[l].block_size) - 1
index_bits(l) == bit_length(num_sets(l)) - 1

_calculate_index(l, address) == BitAnd(ShiftRight(address, offset_bits(l)), num_sets(l) - 1)
_calculate_tag(l, address) == ShiftRight(address, index_bits(l) + offset_bits(l))
\* address & ~(block_size - 1): clear the bits that block_size - 1 has set
_calculate_block_address(l, address) == address - BitAnd(address, cfg[l].block_size - 1)
\* the recomposition with the tag shifted by the index bits only
_calculate_block_address_from_tag_index_short_shift(l, tag, cache_index) ==
    BitOr(ShiftLeft(tag, index_bits(l)), ShiftLeft(cache_index, offset_bits(l)))

_calculate_block_address_from_tag_index(l, tag, cache_index) ==
    BitOr(ShiftLeft(tag, index_bits(l) + offset_bits(l)), ShiftLeft(cache_index, offset_bits(l)))

-----------------------------------------------------------------------------
(* Sequences as ordered dictionaries *)

Range(s) == {s[k] : k \in 1..Len(s)}
Without(s, t) == SelectSeq(s, LAMBDA x : x # t)
Last(s) == s[Len(s)]

has_block(l, block_address) ==
    _calculate_tag(l, block_address) \in Range(cache[l][_calculate_index(l, block_address)])

is_dirty(l, block_address) ==
    LET cache_index == _calculate_index(l, block_address)
        tag == _calculate_tag(l, block_address)
    IN  IF tag \in DOMAIN cache_metadata[l][cache_index]
        THEN cache_metadata[l][cache_index][tag]
        ELSE FALSE

-----------------------------------------------------------------------------
(* Dictionaries tag -> dirty flag *)

DictSet(m, tag, d) == [t \in (DOMAIN m) \cup {tag} |-> IF t = tag THEN d ELSE m[t]]
DictDel(m, tag) ==
    IF (DOMAIN m) \ {tag} = {} THEN <<>> ELSE [t \in (DOMAIN m) \ {tag} |-> m[t]]

-----------------------------------------------------------------------------
(* Call frames and reported events *)

\* mark: the number of events reported in the request before the call was entered
Frame(fn, l, operation, address, cache_index, mark) ==
    [fn |-> fn, lvl |-> l, op |-> operation, address |-> address,
     cache_index |-> cache_index, pc |-> "start", mark |-> mark]

Top == stack[Len(stack)]
Pop == SubSeq(stack, 1, Len(stack) - 1)
Return == stack' = Pop
Goto(pc) == stack' = [stack EXCEPT ![Len(stack)].pc = pc]
\* the caller moves on to `pc` and the callee is entered
Call(pc, callee) == stack' = Append([stack EXCEPT ![Len(stack)].pc = pc], callee)
Running(fn, pc) == stack # <<>> /\ Top.fn = fn /\ Top.pc = pc

Event(kind, l, operation, address) ==
    [kind |-> kind, lvl |-> l, op |-> operation, address |-> address]
\* a hit reported as a miss
report_hit_as_miss(l, operation, address) ==
    Append(events, Event("miss", l, operation, address))

report_hit(l, operation, address) == Append(events, Event("hit", l, operation, address))
report_miss(l, operation, address) == Append(events, Event("miss", l, operation, address))
\* invalidate without its call of report_writeback
report_writeback_dropped(l, block_address) == events

report_writeback(l, block_address) == Append(events, Event("writeback", l, "-", block_address))
report_eviction(l, block_address) == Append(events, Event("eviction", l, "-", block_address))

Request(kind, l, operation, address) ==
    [kind |-> kind, lvl |-> l, op |-> operation, address |-> address]
Long == <<Request("long", 0, "-", 0)>>
Record(r) ==
    IF hist = Long \/ Len(hist) >= MaxHist THEN Long ELSE Append(hist, r)

-----------------------------------------------------------------------------
(* Replacement policy *)

\* _update_recency that moves nothing, whatever the policy
_update_recency_none(l, cache_index, tag) == cache[l][cache_index]

\* _update_recency that moves a hit tag to the end under FIFO as it does under LRU
_update_recency_fifo_moves(l, cache_index, tag) ==
    LET order == cache[l][cache_index]
    IN  IF cfg[l].eviction_policy = "MRU" THEN <<tag>> \o Without(order, tag)
        ELSE Append(Without(order, tag), tag)

\* _update_recency: the key order of the set after the call
_update_recency(l, cache_index, tag) ==
    LET order == cache[l][cache_index]
    IN  IF cfg[l].eviction_policy = "LRU" THEN Append(Without(order, tag), tag)
        ELSE IF cfg[l].eviction_policy = "MRU" THEN <<tag>> \o Without(order, tag)
        ELSE order

\* evict's choice of victim in a non-empty set, lines 85-90; with any other policy name
\* the victim stays None and line 93 raises
victim_block_tag(l, cache_index) ==
    LET order == cache[l][cache_index]
    IN  CASE cfg[l].eviction_policy = "FIFO" -> Head(order)
          [] cfg[l].eviction_policy = "LRU" -> Head(order)
          [] cfg[l].eviction_policy = "MRU" -> Last(order)

\* the capacity test off by one: a set that is exactly full still accepts a block
set_is_full_off_by_one(l, cache_index) == Len(cache[l][cache_index]) > cfg[l].associativity

\* access, line 65: the set has no room
set_is_full(l, cache_index) == Len(cache[l][cache_index]) >= cfg[l].associativity

\* a write hit that marks the block dirty only at the level that has no higher_level
write_hit_marks_dirty_last_level(l, operation) == operation = "W" /\ higher_level(l) = 0

\* a hit that never marks the block dirty
write_hit_marks_dirty_never(l, operation) == FALSE

\* a hit that marks the block dirty whatever the operation
write_hit_marks_dirty_always(l, operation) == TRUE

\* access, line 59: a hit marks the block dirty
write_hit_marks_dirty(l, operation) == operation = "W"

\* a miss that inserts every block clean
dirty_on_insert_clean(operation) == FALSE

\* a miss that inserts every block dirty
dirty_on_insert_always(operation) == TRUE

\* access, line 73: the dirty flag of the block a miss inserts
dirty_on_insert(operation) == operation = "W"

\* a write-back handed to higher_level as a read
writeback_operation_read == "R"

\* invalidate, line 110: the operation a write-back is handed to higher_level with
writeback_operation == "W"

\* access, line 68: the operation sent to higher_level on a miss
prop_operation(l, operation) == IF lower_level(l) # 0 THEN operation ELSE "R"

-----------------------------------------------------------------------------
(* Initial state: every level constructed empty *)

Constructed ==
    /\ cache = [l \in 1..Len(cfg) |-> [i \in 0..(num_sets(l) - 1) |-> <<>>]]
    /\ cache_metadata = [l \in 1..Len(cfg) |-> [i \in 0..(num_sets(l) - 1) |-> <<>>]]
    /\ stack = <<>>
    /\ events = <<>>
    /\ hist = <<>>
    /\ accessOrder = [l \in 1..Len(cfg) |-> [i \in 0..(num_sets(l) - 1) |-> <<>>]]
    /\ insertOrder = [l \in 1..Len(cfg) |-> [i \in 0..(num_sets(l) - 1) |-> <<>>]]
    /\ pending = {}

\* any of the hierarchies; every address may be read and written
Init ==
    /\ \E h \in Hierarchies :
           cfg = h.levels /\ address_space = h.addresses /\ write_space = h.addresses
    /\ Constructed

\* any of the chains constructed with both links
InitLinked ==
    /\ \E h \in LinkedHierarchies :
           cfg = h.levels /\ address_space = h.addresses /\ write_space = h.addresses
    /\ Constructed

-----------------------------------------------------------------------------
(* Requests issued from outside the chain *)

\* a caller invokes level 1's access(operation, address)
access(operation, address) ==
    /\ stack = <<>>
    /\ stack' = <<Frame("access", 1, operation, address, 0, 0)>>
    /\ events' = <<>>
    /\ hist' = Record(Request("access", 1, operation, address))
    /\ UNCHANGED <<cfg, address_space, write_space, cache, cache_metadata, accessOrder, insertOrder, pending>>

\* a caller invokes level l's invalidate(block_address)
invalidate(l, block_address) ==
    /\ stack = <<>>
    /\ stack' = <<Frame("invalidate", l, "-", block_address, 0, 0)>>
    /\ events' = <<>>
    /\ hist' = Record(Request("invalidate", l, "-", block_address))
    /\ UNCHANGED <<cfg, address_space, write_space, cache, cache_metadata, accessOrder, insertOrder, pending>>

\* a caller invokes level l's evict(cache_index)
evict(l, cache_index) ==
    /\ stack = <<>>
    /\ stack' = <<Frame("evict", l, "-", 0, cache_index, 0)>>
    /\ events' = <<>>
    /\ hist' = Record(Request("evict", l, "-", cache_index))
    /\ UNCHANGED <<cfg, address_space, write_space, cache, cache_metadata, accessOrder, insertOrder, pending>>

Access == \E operation \in {"R", "W"}, address \in address_space : access(operation, address)
AccessOther == \E address \in address_space : access("X", address)
Invalidate == \E l \in Levels, address \in address_space : invalidate(l, address)
Evict == \E l \in Levels : \E cache_index \in 0..(num_sets(l) - 1) : evict(l, cache_index)

-----------------------------------------------------------------------------
(* CacheLevel.access *)

\* lines 52-61: the block is in the set
AccessHit ==
    /\ Running("access", "start")
    /\ LET l == Top.lvl
           block_addr == _calculate_block_address(l, Top.address)
           cache_index == _calculate_index(l, block_addr)
           tag == _calculate_tag(l, block_addr)
       IN  /\ tag \in Range(cache[l][cache_index])
           /\ events' = report_hit(l, Top.op, Top.address)
           /\ cache_metadata' =
                  IF write_hit_marks_dirty(l, Top.op)
                  THEN [cache_metadata EXCEPT ![l][cache_index] = DictSet(@, tag, TRUE)]
                  ELSE cache_metadata
           /\ cache' = [cache EXCEPT ![l][cache_index] = _update_recency(l, cache_index, tag)]
           /\ accessOrder' = [accessOrder EXCEPT ![l][cache_index] = Append(Without(@, tag), tag)]
           /\ Return
    /\ UNCHANGED <<cfg, address_space, write_space, hist, insertOrder, pending>>

\* lines 52-56, 62-66: the block is not in the set; a full set evicts first
AccessMiss ==
    /\ Running("access", "start")
    /\ LET l == Top.lvl
           block_addr == _calculate_block_address(l, Top.address)
           cache_index == _calculate_index(l, block_addr)
           tag == _calculate_tag(l, block_addr)
       IN  /\ tag \notin Range(cache[l][cache_index])
           /\ events' = report_miss(l, Top.op, Top.address)
           /\ IF set_is_full(l, cache_index)
              THEN Call("fetch", Frame("evict", l, "-", 0, cache_index, Len(events) + 1))
              ELSE Goto("fetch")
    /\ UNCHANGED <<cfg, address_space, write_space, cache, cache_metadata, hist, accessOrder, insertOrder, pending>>

\* lines 68-70: the block is requested from higher_level, when there is one
AccessFetch ==
    /\ Running("access", "fetch")
    /\ LET l == Top.lvl
           block_addr == _calculate_block_address(l, Top.address)
       IN  IF higher_level(l) # 0
           THEN Call("insert", Frame("access", higher_level(l), prop_operation(l, Top.op),
                                     block_addr, 0, Len(events)))
           ELSE Goto("insert")
    /\ UNCHANGED <<cfg, address_space, write_space, cache, cache_metadata, events, hist, accessOrder, insertOrder, pending>>

\* lines 72-73: the block enters the set
AccessInsert ==
    /\ Running("access", "insert")
    /\ LET l == Top.lvl
           block_addr == _calculate_block_address(l, Top.address)
           cache_index == _calculate_index(l, block_addr)
           tag == _calculate_tag(l, block_addr)
           present == tag \in Range(cache[l][cache_index])
       IN  /\ cache' = [cache EXCEPT ![l][cache_index] = IF present THEN @ ELSE Append(@, tag)]
           /\ cache_metadata' =
                  [cache_metadata EXCEPT ![l][cache_index] = DictSet(@, tag, dirty_on_insert(Top.op))]
           /\ accessOrder' = [accessOrder EXCEPT ![l][cache_index] = Append(Without(@, tag), tag)]
           /\ insertOrder' =
                  [insertOrder EXCEPT ![l][cache_index] = IF present THEN @ ELSE Append(@, tag)]
           /\ Return
    /\ UNCHANGED <<cfg, address_space, write_space, events, hist, pending>>

-----------------------------------------------------------------------------
(* CacheLevel.evict *)

\* lines 80-81: nothing to evict
EvictEmpty ==
    /\ Running("evict", "start")
    /\ cache[Top.lvl][Top.cache_index] = <<>>
    /\ Return
    /\ UNCHANGED <<cfg, address_space, write_space, cache, cache_metadata, events, hist, accessOrder, insertOrder, pending>>

\* lines 84-94: the victim is chosen and invalidated
EvictVictim ==
    /\ Running("evict", "start")
    /\ cache[Top.lvl][Top.cache_index] # <<>>
    /\ cfg[Top.lvl].eviction_policy \in Policies
    /\ LET l == Top.lvl
           evicted_block_address ==
               _calculate_block_address_from_tag_index(
                   l, victim_block_tag(l, Top.cache_index), Top.cache_index)
       IN  stack' = Append([stack EXCEPT ![Len(stack)].pc = "done",
                                         ![Len(stack)].address = evicted_block_address],
                           Frame("invalidate", l, "-", evicted_block_address, 0, Len(events)))
    /\ UNCHANGED <<cfg, address_space, write_space, cache, cache_metadata, events, hist, accessOrder, insertOrder, pending>>

\* line 94: invalidate has returned, and so does evict
EvictReturn ==
    /\ Running("evict", "done")
    /\ Return
    /\ UNCHANGED <<cfg, address_space, write_space, cache, cache_metadata, events, hist, accessOrder, insertOrder, pending>>

-----------------------------------------------------------------------------
(* CacheLevel.invalidate *)

\* invalidate that reports an eviction also for a block that is not in the set
InvalidateAbsentReported ==
    /\ Running("invalidate", "start")
    /\ ~has_block(Top.lvl, Top.address)
    /\ events' = report_eviction(Top.lvl, Top.address)
    /\ Return
    /\ UNCHANGED <<cfg, address_space, write_space, cache, cache_metadata, hist, accessOrder, insertOrder, pending>>

\* lines 100-104: the block is not in the set
InvalidateAbsent ==
    /\ Running("invalidate", "start")
    /\ ~has_block(Top.lvl, Top.address)
    /\ Return
    /\ UNCHANGED <<cfg, address_space, write_space, cache, cache_metadata, events, hist, accessOrder, insertOrder, pending>>

\* invalidate that reports the write-back of a dirty block and hands nothing to
\* higher_level
InvalidateWritebackNoHandOff ==
    /\ Running("invalidate", "start")
    /\ has_block(Top.lvl, Top.address)
    /\ events' = IF is_dirty(Top.lvl, Top.address)
                 THEN report_writeback(Top.lvl, Top.address)
                 ELSE events
    /\ pending' = IF is_dirty(Top.lvl, Top.address) /\ higher_level(Top.lvl) = 0
                  THEN pending \ {_calculate_block_address(Top.lvl, Top.address)}
                  ELSE pending
    /\ Goto("remove")
    /\ UNCHANGED <<cfg, address_space, write_space, cache, cache_metadata, hist, accessOrder, insertOrder>>

\* lines 107-110: a dirty block is reported and written to higher_level, when there is one
InvalidateWriteback ==
    /\ Running("invalidate", "start")
    /\ has_block(Top.lvl, Top.address)
    /\ LET l == Top.lvl
           cache_index == _calculate_index(l, Top.address)
           tag == _calculate_tag(l, Top.address)
       IN  IF cache_metadata[l][cache_index][tag]
           THEN /\ events' = report_writeback(l, Top.address)
                /\ IF higher_level(l) # 0
                   THEN /\ Call("remove", Frame("access", higher_level(l), writeback_operation,
                                                Top.address, 0, Len(events) + 1))
                        /\ pending' = pending
                   ELSE /\ Goto("remove")
                        /\ pending' = pending \ {_calculate_block_address(l, Top.address)}
           ELSE /\ events' = events
                /\ Goto("remove")
                /\ pending' = pending
    /\ UNCHANGED <<cfg, address_space, write_space, cache, cache_metadata, hist, accessOrder, insertOrder>>

\* lines 113-115: the block leaves the set
InvalidateRemove ==
    /\ Running("invalidate", "remove")
    /\ LET l == Top.lvl
           cache_index == _calculate_index(l, Top.address)
           tag == _calculate_tag(l, Top.address)
       IN  /\ cache' = [cache EXCEPT ![l][cache_index] = Without(@, tag)]
           /\ cache_metadata' = [cache_metadata EXCEPT ![l][cache_index] = DictDel(@, tag)]
           /\ accessOrder' = [accessOrder EXCEPT ![l][cache_index] = Without(@, tag)]
           /\ insertOrder' = [insertOrder EXCEPT ![l][cache_index] = Without(@, tag)]
           /\ events' = report_eviction(l, Top.address)
           /\ Return
    /\ UNCHANGED <<cfg, address_space, write_space, hist, pending>>

-----------------------------------------------------------------------------
(* Specifications *)

\* the statements reached by requests at level 1: there evict is entered with a
\* full set and invalidate with evict's victim
Step ==
    \/ AccessHit
    \/ AccessMiss
    \/ AccessFetch
    \/ AccessInsert
    \/ EvictVictim
    \/ EvictReturn
    \/ InvalidateWriteback
    \/ InvalidateRemove

\* read and write requests at level 1
Next == Access \/ Step
Spec == Init /\ [][Next]_vars

\* also requests with another operation code, and evict and invalidate called on any
\* level, on the chains constructed with both links
NextAny == Next \/ AccessOther \/ Invalidate \/ Evict \/ EvictEmpty \/ InvalidateAbsent
SpecAny == InitLinked /\ [][NextAny]_vars

\* under Spec the early returns of evict (line 81) and invalidate (line 104) are not taken
EarlyReturnsUnreached ==
    /\ Running("evict", "start") => cache[Top.lvl][Top.cache_index] # <<>>
    /\ Running("invalidate", "start") => has_block(Top.lvl, Top.address)

-----------------------------------------------------------------------------
(* Requests whose writes are recorded, and are kept away from some blocks *)

\* every address; or every address outside the block of one address; or none
WriteSpaces(addresses) ==
    {addresses, {}}
    \cup {{a \in addresses : _calculate_block_address(1, a) # _calculate_block_address(1, b)} :
             b \in addresses}

InitWrites ==
    /\ \E h \in Hierarchies :
           /\ cfg = h.levels
           /\ address_space = h.addresses
           /\ write_space \in WriteSpaces(h.addresses)
    /\ Constructed

\* a caller invokes level 1's access(operation, address); a write is recorded in `pending`
access_recorded(operation, address) ==
    /\ stack = <<>>
    /\ stack' = <<Frame("access", 1, operation, address, 0, 0)>>
    /\ events' = <<>>
    /\ hist' = Record(Request("access", 1, operation, address))
    /\ pending' = IF operation = "W"
                  THEN pending \cup {_calculate_block_address(1, address)}
                  ELSE pending
    /\ UNCHANGED <<cfg, address_space, write_space, cache, cache_metadata, accessOrder, insertOrder>>

AccessRecorded ==
    \/ \E address \in address_space : access_recorded("R", address)
    \/ \E address \in write_space : access_recorded("W", address)

NextWrites == AccessRecorded \/ Step
SpecWrites == InitWrites /\ [][NextWrites]_vars

-----------------------------------------------------------------------------
(* The address arithmetic of a level, applied to addresses no request carries *)

\* one direct-mapped level of each geometry; no request is issued to it
Geometries ==
    {Hierarchy(Chain(<<LevelCfg(Pow2(o) * Pow2(i), Pow2(o), 1, "FIFO")>>), {}) :
        o \in 0..MaxOffsetBits, i \in 0..MaxIndexBits}

InitGeometry ==
    /\ \E h \in Geometries :
           cfg = h.levels /\ address_space = h.addresses /\ write_space = h.addresses
    /\ Constructed

\* a block address is split by _calculate_tag and _calculate_index (the frame keeps the
\* address, the index and, as its mark, the tag) and put together again by
\* _calculate_block_address_from_tag_index (the event keeps the result)
Recompose ==
    /\ address_space = {}
    /\ \E address \in 0..MaxAddress :
          /\ _calculate_block_address(1, address) = address
          /\ LET tag == _calculate_tag(1, address)
                 cache_index == _calculate_index(1, address)
             IN  /\ stack' = <<[Frame("recompose", 1, "-", address, cache_index, tag)
                                 EXCEPT !.pc = "done"]>>
                 /\ events' = <<Event("recompose", 1, "-",
                                      _calculate_block_address_from_tag_index(
                                          1, tag, cache_index))>>
    /\ UNCHANGED <<cfg, address_space, write_space, cache, cache_metadata, hist,
                   accessOrder, insertOrder, pending>>

\* the requests of Spec on its hierarchies, and the arithmetic alone on every geometry
NextArithmetic == Next \/ Recompose
SpecArithmetic == (Init \/ InitGeometry) /\ [][NextArithmetic]_vars

-----------------------------------------------------------------------------
(* Properties *)

SetIndexes(l) == DOMAIN cache[l]
\* the events of `log` at positions from..Len(log) that report a write-back, by level l,
\* of the block with this tag in set cache_index
WritebacksOf(log, from, l, cache_index, tag) ==
    {k \in from..Len(log) :
        /\ log[k].kind = "writeback"
        /\ log[k].lvl = l
        /\ _calculate_index(l, log[k].address) = cache_index
        /\ _calculate_tag(l, log[k].address) = tag}
EventsOfKind(kind) == {k \in 1..Len(events) : events[k].kind = kind}

\* C1: in every state, also those inside a miss / eviction / write-back cascade, every
\* set of every level holds at most `associativity` tags, each once, and as many
\* dirty flags as tags.
C1_CapacityInvariant ==
    \A l \in Levels : \A i \in SetIndexes(l) :
        /\ Len(cache[l][i]) <= cfg[l].associativity
        /\ Cardinality(Range(cache[l][i])) = Len(cache[l][i])
        /\ DOMAIN cache_metadata[l][i] = Range(cache[l][i])

\* a request that evicted from a set of some level has returned and the set is full again
C1_Witness ==
    /\ stack = <<>>
    /\ \E k \in EventsOfKind("eviction") :
          LET l == events[k].lvl
          IN  Len(cache[l][_calculate_index(l, events[k].address)]) = cfg[l].associativity

\* C2: a step that removes a block whose dirty flag is set is the removal of an
\* invalidate call at that level for that block, and that call has reported exactly one
\* write-back of the block, at that level, while the block was still resident; it is the
\* only write-back of the block reported by the level in the request.
C2_DirtyRemovalWrittenBack ==
    [][\A l \in Levels : \A i \in SetIndexes(l) : \A tag \in Range(cache[l][i]) :
          (cache_metadata[l][i][tag] /\ tag \notin Range(cache'[l][i]))
          => /\ Running("invalidate", "remove")
             /\ Top.lvl = l
             /\ _calculate_index(l, Top.address) = i
             /\ _calculate_tag(l, Top.address) = tag
             /\ Cardinality(WritebacksOf(events, Top.mark + 1, l, i, tag)) = 1
             /\ Cardinality(WritebacksOf(events, 1, l, i, tag)) = 1
             /\ Cardinality(WritebacksOf(events', 1, l, i, tag)) = 1]_vars

\* a request has returned in which a dirty block was written back and removed
C2_Witness ==
    /\ stack = <<>>
    /\ \E k \in EventsOfKind("writeback") : \E j \in EventsOfKind("eviction") :
          /\ k < j
          /\ events[j].lvl = events[k].lvl
          /\ events[j].address = events[k].address
          /\ ~has_block(events[k].lvl, events[k].address)

\* C3: when evict of a level that has a lower_level has removed its victim, the victim
\* block is not resident in the lower_level.
C3_InclusionAfterEvict ==
    (Running("evict", "done") /\ lower_level(Top.lvl) # 0)
    => ~has_block(lower_level(Top.lvl), Top.address)

\* evict, entered by a miss of level l on a full set, has chosen its victim and called
\* invalidate for it; nothing has been removed yet
VictimChosen(pol) ==
    /\ Len(stack) >= 3
    /\ Top.fn = "invalidate" /\ Top.pc = "start"
    /\ stack[Len(stack) - 1].fn = "evict"
    /\ stack[Len(stack) - 2].fn = "access"
    /\ stack[Len(stack) - 2].lvl = Top.lvl
    /\ cfg[Top.lvl].eviction_policy = pol
    /\ Len(cache[Top.lvl][stack[Len(stack) - 1].cache_index]) = cfg[Top.lvl].associativity
VictimSet == stack[Len(stack) - 1].cache_index
VictimTag == _calculate_tag(Top.lvl, Top.address)
\* evict has returned from invalidate
VictimGone(pol) ==
    (Running("evict", "done") /\ cfg[Top.lvl].eviction_policy = pol)
    => ~has_block(Top.lvl, Top.address)

\* C4: under MRU the victim of a miss on a full set is the tag of the set accessed most
\* recently, by a hit or by its insertion.
C4_MRUVictim ==
    VictimChosen("MRU") => VictimTag = Last(accessOrder[Top.lvl][VictimSet])

\* C5: under LRU the victim of a miss on a full set is the tag of the set whose last
\* access, a hit or its insertion, is the oldest, and evict removes that block.
C5_LRUVictim ==
    /\ VictimChosen("LRU")
       => /\ _calculate_index(Top.lvl, Top.address) = VictimSet
          /\ VictimTag = Head(accessOrder[Top.lvl][VictimSet])
    /\ VictimGone("LRU")

\* tags 1, 2, 3 were inserted in this order into the 3-way set, tag 1 was hit after the
\* insertion of 3, and the next miss evicts tag 2
C5_Witness ==
    /\ VictimChosen("LRU")
    /\ cfg[1].associativity = 3
    /\ insertOrder[1][0] = <<1, 2, 3>>
    /\ accessOrder[1][0] = <<2, 3, 1>>
    /\ VictimTag = 2

\* C6: under FIFO the victim of a miss on a full set is the tag inserted earliest,
\* whatever hits there were, evict removes that block, and the order of a set is at all
\* times its insertion order.
C6_FIFOVictim ==
    /\ VictimChosen("FIFO")
       => /\ _calculate_index(Top.lvl, Top.address) = VictimSet
          /\ VictimTag = Head(insertOrder[Top.lvl][VictimSet])
    /\ VictimGone("FIFO")
    /\ \A l \in Levels : \A i \in SetIndexes(l) :
          cfg[l].eviction_policy = "FIFO" => cache[l][i] = insertOrder[l][i]

\* the victim is the earliest inserted tag although it was hit after the insertion of
\* every other tag of the set
C6_Witness ==
    /\ VictimChosen("FIFO")
    /\ cfg[Top.lvl].associativity >= 2
    /\ VictimTag = Head(insertOrder[Top.lvl][VictimSet])
    /\ VictimTag = Last(accessOrder[Top.lvl][VictimSet])

\* the hierarchy L1 (64, 16, 1) backed by L2 (128, 16, 2)
IsTwoLevelScenario ==
    /\ Len(cfg) = 2
    /\ cfg[1].cache_size = 64 /\ cfg[1].block_size = 16 /\ cfg[1].associativity = 1
    /\ cfg[2].cache_size = 128 /\ cfg[2].block_size = 16 /\ cfg[2].associativity = 2
    /\ num_sets(1) = 4 /\ num_sets(2) = 4
\* exactly these requests were issued to the empty hierarchy and have returned
After(requests) == stack = <<>> /\ hist = requests
Read(address) == Request("access", 1, "R", address)
Write(address) == Request("access", 1, "W", address)
\* block 0x00 was written back, is dirty in L2 and no longer in L1
Block0MovedToL2 ==
    /\ \E k \in EventsOfKind("writeback") : events[k].address = 0
    /\ has_block(2, 0) /\ is_dirty(2, 0)
    /\ ~has_block(1, 0)

\* C7 as stated: after Write(0x00), Read(0x10) block 0x00 was written back, is dirty
\* in L2 and is no longer in L1.
C7_AsStated ==
    (IsTwoLevelScenario /\ After(<<Write(0), Read(16)>>)) => Block0MovedToL2

\* C7, amended: after Write(0x00), Read(0x40) (0x40 shares set 0 with 0x00; 0x10 is in
\* set 1) block 0x00 was written back, is dirty in L2 and is no longer in L1.
C7_EvictionStep ==
    (IsTwoLevelScenario /\ After(<<Write(0), Read(64)>>)) => Block0MovedToL2

C7_Witness == IsTwoLevelScenario /\ After(<<Write(0), Read(64)>>) /\ has_block(1, 64)

\* C8: after the single request Write(0x00) the reports are one miss of L1 and one miss
\* of L2, and L1 holds block 0x00 dirty.
C8_WriteMissStep ==
    (IsTwoLevelScenario /\ After(<<Write(0)>>))
    => /\ [k \in 1..Len(events) |-> <<events[k].kind, events[k].lvl>>]
              = <<(<<"miss", 1>>), (<<"miss", 2>>)>>
       /\ has_block(1, 0) /\ is_dirty(1, 0)

C8_Witness == IsTwoLevelScenario /\ After(<<Write(0)>>) /\ has_block(2, 0)

\* C9: while a request access(operation, address) with an operation other than 'R' and
\* 'W' is in flight, no set, no dirty flag and no order changes and nothing is reported.
C9_UnknownOperationRejected ==
    [][(stack # <<>> /\ stack[1].fn = "access" /\ stack[1].op \notin {"R", "W"})
       => (cache' = cache /\ cache_metadata' = cache_metadata /\ events' = events)]_vars

\* C10: invalidate entered for a block that is not resident returns at once: no set, flag
\* or order of any level changes, nothing is reported and no other call is made; and a
\* block that invalidate was called for from outside is not resident when the call has
\* returned, so that a second call for it is such a call.
C10_InvalidateAbsentNoOp ==
    /\ [][(Running("invalidate", "start") /\ ~has_block(Top.lvl, Top.address))
          => /\ stack' = Pop
             /\ UNCHANGED <<cache, cache_metadata, events, accessOrder, insertOrder>>]_vars
    /\ [](\A k \in 1..Len(hist) :
            (stack = <<>> /\ k = Len(hist) /\ hist[k].kind = "invalidate")
            => ~has_block(hist[k].lvl, hist[k].address))

\* level 1 holds block 0x00 dirty, invalidate(0x10) was called on it and has returned
\* without a report
C10_Witness ==
    /\ stack = <<>>
    /\ hist = <<Write(0), Request("invalidate", 1, "-", 16)>>
    /\ events = <<>>
    /\ has_block(1, 0) /\ is_dirty(1, 0)

\* evict has chosen its victim and entered invalidate with the victim's block address
EvictHandsOver ==
    /\ Len(stack) >= 2
    /\ Running("invalidate", "start")
    /\ stack[Len(stack) - 1].fn = "evict"

\* C11: for every level whose block_size and num_sets are powers of two and every
\* block-aligned address, _calculate_block_address_from_tag_index applied to the
\* address's tag and index gives the address back; and the address evict hands to
\* invalidate has the index of the set evict was called for and the tag of its victim.
C11_DecompositionRoundTrip ==
    /\ Running("recompose", "done") => events[1].address = Top.address
    /\ EvictHandsOver
       => LET l == Top.lvl
              cache_index == stack[Len(stack) - 1].cache_index
          IN  /\ _calculate_index(l, Top.address) = cache_index
              /\ _calculate_tag(l, Top.address) = victim_block_tag(l, cache_index)
              /\ has_block(l, Top.address)

\* an address with a non-zero tag, index and block size above 1 has been recomposed
C11_Witness ==
    /\ Running("recompose", "done")
    /\ Top.mark > 0
    /\ Top.cache_index > 0
    /\ cfg[1].block_size > 1
    /\ events[1].address = Top.address

\* the frames of `stack` entered by invalidate's call of higher_level.access (line 110)
HandOffFrames ==
    {j \in 2..Len(stack) : stack[j].fn = "access" /\ stack[j - 1].fn = "invalidate"}

\* C12: the access that hands a written-back block to higher_level only records the
\* block there: it never takes the miss branch (no miss reported, no evict, no access
\* to the next level), also when higher_level does not hold the block.
C12_HandOffOnlyRecords ==
    \A j \in HandOffFrames : j = Len(stack) /\ stack[j].pc = "start"

\* the frames of `stack` entered by access's call of higher_level.access (line 70)
FetchFrames ==
    {j \in 2..Len(stack) : stack[j].fn = "access" /\ stack[j - 1].fn = "access"}

\* C13: the access a miss sends to higher_level carries the operation Read, whatever
\* the operation of the access that missed and wherever that access came from.
C13_MissForwardsRead ==
    \A j \in FetchFrames : stack[j].op = "R"

\* access is about to take its hit branch
HitStep == Running("access", "start") /\ has_block(Top.lvl, Top.address)
HitSet == _calculate_index(Top.lvl, Top.address)
HitTag == _calculate_tag(Top.lvl, Top.address)
\* the dirty flags after the step are those before it, with the flag of the hit block set
HitBlockMarkedDirty ==
    cache_metadata' = [cache_metadata EXCEPT ![Top.lvl][HitSet][HitTag] = TRUE]

\* C14 as stated: a Write hit sets the dirty flag at a level with no higher_level and
\* leaves every dirty flag as it was at a level that has one; a Read hit changes none.
C14_AsStated ==
    [][HitStep
       => /\ (Top.op = "W" /\ higher_level(Top.lvl) = 0) => HitBlockMarkedDirty
          /\ (Top.op = "W" /\ higher_level(Top.lvl) # 0) => cache_metadata' = cache_metadata
          /\ Top.op = "R" => cache_metadata' = cache_metadata]_vars

\* C14, amended: a Write hit sets the dirty flag of the hit block at the level where it
\* hits, with or without a higher_level, and changes no other flag; a Read hit changes
\* no dirty flag.
C14_WriteHitMarksDirty ==
    [][HitStep
       => /\ Top.op = "W" => HitBlockMarkedDirty
          /\ Top.op = "R" => cache_metadata' = cache_metadata]_vars

\* Read(0x00), Write(0x00) in the two-level hierarchy: the write hit in L1, which has a
\* higher_level, and the block L1 had inserted clean is dirty
C14_Witness ==
    /\ IsTwoLevelScenario
    /\ After(<<Read(0), Write(0)>>)
    /\ events = <<Event("hit", 1, "W", 0)>>
    /\ is_dirty(1, 0)
    /\ ~is_dirty(2, 0)

\* access is about to insert the block it fetched
InsertStep == Running("access", "insert")
\* the dirty flag, after the step, of the block the step inserts
InsertedDirty ==
    LET l == Top.lvl
        cache_index == _calculate_index(l, Top.address)
        tag == _calculate_tag(l, Top.address)
    IN  /\ tag \in Range(cache'[l][cache_index])
        /\ tag \in DOMAIN cache_metadata'[l][cache_index]
        /\ cache_metadata'[l][cache_index][tag]
\* the step adds the block to its set
Inserted ==
    LET l == Top.lvl
        cache_index == _calculate_index(l, Top.address)
        tag == _calculate_tag(l, Top.address)
    IN  /\ tag \notin Range(cache[l][cache_index])
        /\ tag \in Range(cache'[l][cache_index])

\* C15 as stated: the block a miss inserts is dirty exactly when the operation is Write
\* and the level has no higher_level, or the higher_level holds the block dirty when the
\* fetch has returned.
C15_AsStated ==
    [][InsertStep
       => (InsertedDirty
           <=> \/ Top.op = "W" /\ higher_level(Top.lvl) = 0
               \/ higher_level(Top.lvl) # 0 /\ is_dirty(higher_level(Top.lvl), Top.address))]_vars

\* C15, amended: the block a miss inserts is dirty exactly when the operation of the
\* access is Write, with or without a higher_level and whatever the dirty flag of the
\* block in the higher_level.
C15_InsertedDirtyIffWrite ==
    [][InsertStep
       => /\ Inserted
          /\ InsertedDirty <=> Top.op = "W"]_vars

\* a Read that missed in level 1 and hit in level 2 has returned: level 1 holds the block
\* clean although level 2 holds it dirty
C15_Witness ==
    /\ stack = <<>>
    /\ events # <<>>
    /\ events[1].kind = "miss" /\ events[1].lvl = 1 /\ events[1].op = "R"
    /\ Last(events) = Event("hit", 2, "R", _calculate_block_address(1, events[1].address))
    /\ has_block(1, events[1].address)
    /\ ~is_dirty(1, events[1].address)
    /\ is_dirty(2, events[1].address)

\* C16: a step that removes a block whose dirty flag is set from a level that has a
\* higher_level ends in a state in which the higher_level holds that block with its
\* dirty flag set.
C16_DirtyHandedToHigherLevel ==
    [][\A l \in Levels : \A i \in SetIndexes(l) : \A tag \in Range(cache[l][i]) :
          (cache_metadata[l][i][tag] /\ tag \notin Range(cache'[l][i]) /\ higher_level(l) # 0)
          => LET h == higher_level(l)
                 block_address == _calculate_block_address_from_tag_index(l, tag, i)
                 cache_index == _calculate_index(h, block_address)
                 htag == _calculate_tag(h, block_address)
             IN  /\ htag \in Range(cache'[h][cache_index])
                 /\ htag \in DOMAIN cache_metadata'[h][cache_index]
                 /\ cache_metadata'[h][cache_index][htag]]_vars

\* invalidate has just removed a block it had written back to a higher_level that did
\* not hold it (the hand-off missed there); the higher_level now holds it dirty
C16_Witness ==
    /\ events # <<>>
    /\ Last(events).kind = "eviction"
    /\ LET l == Last(events).lvl
           block_address == Last(events).address
       IN  /\ higher_level(l) # 0
           /\ \E k \in EventsOfKind("writeback") :
                 /\ events[k] = Event("writeback", l, "-", block_address)
                 /\ k < Len(events)
                 /\ events[k + 1] = Event("miss", higher_level(l), "W", block_address)
           /\ ~has_block(l, block_address)
           /\ has_block(higher_level(l), block_address)
           /\ is_dirty(higher_level(l), block_address)

\* C17: the step of an access that finds its block resident reports one hit and nothing
\* else, returns without calling evict, invalidate or another level, leaves every other
\* set of every level as it was, and in the hit set keeps the same blocks: only the
\* position of the hit block and its dirty flag may differ.
C17_HitConfined ==
    [][HitStep
       => /\ events' = Append(events, Event("hit", Top.lvl, Top.op, Top.address))
          /\ stack' = Pop
          /\ \A l \in Levels : \A i \in SetIndexes(l) :
                (l # Top.lvl \/ i # HitSet)
                => cache'[l][i] = cache[l][i] /\ cache_metadata'[l][i] = cache_metadata[l][i]
          /\ Len(cache'[Top.lvl][HitSet]) = Len(cache[Top.lvl][HitSet])
          /\ Without(cache'[Top.lvl][HitSet], HitTag) = Without(cache[Top.lvl][HitSet], HitTag)
          /\ DOMAIN cache_metadata'[Top.lvl][HitSet] = DOMAIN cache_metadata[Top.lvl][HitSet]
          /\ \A tag \in Range(cache[Top.lvl][HitSet]) \ {HitTag} :
                cache_metadata'[Top.lvl][HitSet][tag] = cache_metadata[Top.lvl][HitSet][tag]]_vars

\* a request that hit in an LRU level 1 has returned; the hit block, the earliest
\* inserted of a set of several blocks, is now the last of its set
C17_Witness ==
    /\ stack = <<>>
    /\ Len(events) = 1
    /\ events[1].kind = "hit" /\ events[1].lvl = 1
    /\ cfg[1].eviction_policy = "LRU"
    /\ LET cache_index == _calculate_index(1, events[1].address)
           tag == _calculate_tag(1, events[1].address)
       IN  /\ Len(cache[1][cache_index]) >= 2
           /\ Last(cache[1][cache_index]) = tag
           /\ Head(insertOrder[1][cache_index]) = tag

\* the frames of `stack` entered through a link between levels: by access's fetch from
\* higher_level or by invalidate's write-back to it
EnteredFromNeighbour == FetchFrames \cup HandOffFrames

\* no level is entered from a neighbour while a call of that level is in flight, and
\* the calls in flight go up the chain
NoReentry ==
    /\ \A j \in EnteredFromNeighbour : \A k \in 1..(j - 1) : stack[k].lvl < stack[j].lvl
    /\ \A j \in 2..Len(stack) : stack[j - 1].lvl <= stack[j].lvl

\* how far a call has got: at its first statement, past its first call site, past its
\* second; 3 stands for a call that has returned or was never made
PcRank(pc) == IF pc = "start" THEN 0 ELSE IF pc = "insert" THEN 2 ELSE 1
\* access calls evict and higher_level, evict calls invalidate, invalidate calls
\* higher_level: at most three calls of a level are in flight
MaxDepth == 3 * Len(cfg)
RECURSIVE RankFrom(_, _)
RankFrom(s, k) ==
    IF k > MaxDepth THEN 0
    ELSE (IF k <= Len(s) THEN PcRank(s[k].pc) ELSE 3) * Pow2(2 * (MaxDepth - k))
         + RankFrom(s, k + 1)
\* the progress of the calls in flight, outermost call most significant
Rank(s) == RankFrom(s, 1)

\* C18: a request issued at level 1 returns after finitely many nested calls: the calls
\* in flight are never more than three per level, a call in flight always has a next
\* statement to execute, and every statement executed moves the request strictly
\* forward in a bounded order; and no level is entered again from a neighbour while one
\* of its own calls is still in flight.
C18_TerminatesWithoutReentry ==
    /\ [](NoReentry /\ Len(stack) <= MaxDepth /\ (stack # <<>> => ENABLED Step))
    /\ [][stack # <<>> => Rank(stack') > Rank(stack)]_vars

\* a request that went three levels deep (level 3 entered while levels 1 and 2 were in
\* flight) has returned
C18_Witness ==
    /\ stack = <<>>
    /\ \E k \in EventsOfKind("miss") : events[k].lvl = 3
    /\ \E k \in EventsOfKind("writeback") : events[k].lvl = 1

\* some level holds the block with its dirty flag set
DirtySomewhere(block_address) == \E l \in Levels : is_dirty(l, block_address)

\* C19: between requests, every block written at level 1 is held dirty by some level,
\* unless the last level has reported a write-back of that block since the write.
C19_NoLostWrites ==
    stack = <<>> => \A block_address \in pending : DirtySomewhere(block_address)

\* a request has returned in which the last level wrote back a block, now dirty nowhere,
\* while another written block is still waiting for its write-back, dirty in some level
C19_Witness ==
    /\ stack = <<>>
    /\ pending # {}
    /\ \A block_address \in pending : DirtySomewhere(block_address)
    /\ \E k \in EventsOfKind("writeback") :
          /\ events[k].lvl = Len(cfg)
          /\ events[k].address \notin pending
          /\ ~DirtySomewhere(events[k].address)

\* a write to the block was issued at level 1 before: the block is one that writes are
\* issued to, and as long as `hist` holds every request issued it holds such a write
WrittenBefore(block_address) ==
    /\ \E address \in write_space : _calculate_block_address(1, address) = block_address
    /\ hist # Long
       => \E k \in 1..Len(hist) :
             /\ hist[k].op = "W"
             /\ _calculate_block_address(1, hist[k].address) = block_address

\* C20: every block that is dirty at some level, and every block a write-back is
\* reported for, is a block a write was issued to at level 1 before; so with no write
\* issued at all no block is dirty and no write-back is reported.  (Under SpecWrites
\* the writes of a behaviour stay away from one block, or from all.)
C20_DirtyOnlyIfWritten ==
    /\ \A l \in Levels : \A i \in SetIndexes(l) : \A tag \in Range(cache[l][i]) :
          cache_metadata[l][i][tag]
          => WrittenBefore(_calculate_block_address_from_tag_index(l, tag, i))
    /\ \A k \in EventsOfKind("writeback") :
          WrittenBefore(_calculate_block_address(events[k].lvl, events[k].address))

\* writes are kept away from a block; requests have returned after which that block is
\* resident and clean at level 1 while level 2 holds a written block dirty
C20_Witness ==
    /\ stack = <<>>
    /\ Len(cfg) >= 2
    /\ \E address \in address_space \ write_space :
          /\ has_block(1, address)
          /\ ~DirtySomewhere(address)
    /\ \E address \in write_space : is_dirty(2, address)

====
